---- MODULE Spec2Model ----
(* Model of src/render.ts: the batch orchestrator `main`, the input         *)
(* enumerator `listTexFiles`, `slugify`, and the two SVG post-processors    *)
(* `addOutlineToMathJaxSvg` and `addMarginToSvg`.                           *)
(*                                                                          *)
(* Representation choices:                                                  *)
(*  - JavaScript numbers are exact rationals [n, d] (d > 0, lowest terms)   *)
(*    plus NaN (d = 0).  Floating-point rounding is not modelled.           *)
(*  - File names and file contents are sequences of UTF-16 code units.      *)
(*  - An attribute value that the code splits on whitespace (viewBox) is    *)
(*    held as the token list String.split(/\s+/) yields; a token is a       *)
(*    numeric literal, a non-numeric word, or the empty string.             *)
(*  - A size attribute (width/height) is held as the numeric prefix that    *)
(*    parseFloat reads (NaN when there is none) and the remaining suffix.   *)
EXTENDS Integers, Sequences, FiniteSets, TLC

VARIABLES
  \* --- main (src/render.ts:89-157) ---
  cfg,          \* the RenderConfig passed to main
  dir,          \* entries of equationsDir in readdir order
  pc,           \* position of main
  outDirExists, \* whether outDir exists on disk
  files,        \* const files = await listTexFiles(...)
  idx,          \* 1-based position of the for..of loop in files
  latex,        \* trimmed text of the file being processed
  svg,          \* `let svg` of the loop body
  mathjax,      \* whether createMathJax() has run
  disk,         \* outDir: output path -> content
  exitCode,     \* process.exitCode
  log,          \* console output, in order
  readLog,      \* names passed to fs.readFile, in order
  writeLog,     \* output writes, in order: [path, src]
  convertLog,   \* names for which html.convert was invoked, in order
  failedAt,     \* 0, or the loop position at which a collaborator raised
  raisedBy,     \* "none", "typeset" or "raster"
  \* --- addMarginToSvg applied to an arbitrary document ---
  mSvg, mMargin, mOut, mDone,
  \* --- addOutlineToMathJaxSvg applied to an arbitrary document ---
  oSvg, oOpts, oOut, oDone

mainVars == <<cfg, dir, pc, outDirExists, files, idx, latex, svg, mathjax, disk,
              exitCode, log, readLog, writeLog, convertLog, failedAt, raisedBy>>
marginVars == <<mSvg, mMargin, mOut, mDone>>
outlineVars == <<oSvg, oOpts, oOut, oDone>>
vars == <<mainVars, marginVars, outlineVars>>

-----------------------------------------------------------------------------
(* Bounds *)

MaxEntries == 3
MaxViewBoxLen == 4
MaxElems == 3

-----------------------------------------------------------------------------
(* JavaScript numbers *)

RECURSIVE GCD(_, _)
GCD(a, b) ==
  IF b = 0 THEN a ELSE GCD(b, a % b)

Abs(a) ==
  IF a < 0 THEN -a ELSE a

NaN ==
  [n |-> 0, d |-> 0]

IsNaN(v) ==
  v.d = 0

Norm(n, d) ==
  IF d = 0 THEN NaN
  ELSE LET g == GCD(Abs(n), Abs(d))
           s == IF d < 0 THEN -1 ELSE 1
       IN [n |-> (s * n) \div g, d |-> (s * d) \div g]

Num(i) ==
  [n |-> i, d |-> 1]

RAdd(a, b) ==
  IF IsNaN(a) \/ IsNaN(b) THEN NaN ELSE Norm(a.n * b.d + b.n * a.d, a.d * b.d)

RSub(a, b) ==
  IF IsNaN(a) \/ IsNaN(b) THEN NaN ELSE Norm(a.n * b.d - b.n * a.d, a.d * b.d)

RMul(a, b) ==
  IF IsNaN(a) \/ IsNaN(b) THEN NaN ELSE Norm(a.n * b.n, a.d * b.d)

\* Every division in render.ts is guarded by width > 0 && height > 0, so the
\* divisor is never zero; x / 0 is mapped to NaN to keep the operator total.
RDiv(a, b) ==
  IF IsNaN(a) \/ IsNaN(b) THEN NaN ELSE Norm(a.n * b.d, a.d * b.n)

\* a > 0 and a <= 0 are both false for NaN
RGtZero(a) ==
  ~IsNaN(a) /\ a.n > 0

RLeZero(a) ==
  ~IsNaN(a) /\ a.n <= 0

-----------------------------------------------------------------------------
(* Attribute values *)

NULL == "NULL"

\* tokens of a whitespace-split attribute value
NumTok(v) ==
  [kind |-> "num", val |-> v, text |-> ""]

WordTok(t) ==
  [kind |-> "word", val |-> NaN, text |-> t]

EmptyTok ==
  [kind |-> "empty", val |-> NaN, text |-> ""]

\* Number(token): "" converts to 0, a non-numeric word to NaN
Number(tok) ==
  IF tok.kind = "num" THEN tok.val
  ELSE IF tok.kind = "empty" THEN Num(0)
  ELSE NaN

\* `${v}` of a number
NumberToString(v) ==
  IF IsNaN(v) THEN WordTok("NaN") ELSE NumTok(v)

NoAttr ==
  [present |-> FALSE, toks |-> <<>>]

\* viewBox attribute holding a string that splits into toks
ViewBoxAttr(toks) ==
  [present |-> TRUE, toks |-> toks]

\* !viewBox : attribute missing, or the empty string (which splits into [""])
ViewBoxFalsy(vb) ==
  ~vb.present \/ vb.toks = <<EmptyTok>>

NoSize ==
  [present |-> FALSE, val |-> NaN, suffix |-> ""]

SizeAttr(v, suffix) ==
  [present |-> TRUE, val |-> v, suffix |-> suffix]

\* truthiness of a size attribute string: missing and "" are falsy
SizeTruthy(a) ==
  a.present /\ ~(IsNaN(a.val) /\ a.suffix = "")

IncludesPercent(a) ==
  a.suffix = "%"

parseFloat(a) ==
  a.val

-----------------------------------------------------------------------------
(* Documents *)

Elem(tag, fill, stroke, sw, po, lj, d) ==
  [tag |-> tag, fill |-> fill, stroke |-> stroke, strokeWidth |-> sw,
   paintOrder |-> po, strokeLinejoin |-> lj, d |-> d]

Doc(hasSvg, vb, w, h, elems) ==
  [hasSvg |-> hasSvg, viewBox |-> vb, width |-> w, height |-> h, elems |-> elems]

BRIGHT_OUTLINE_STROKE_COLOR == "#ddd"
BRIGHT_OUTLINE_STROKE_WIDTH == 45

OutlinePathMissingGuard(p, opts) ==
  [p EXCEPT !.stroke = opts.stroke,
            !.strokeWidth = ToString(opts.strokeWidth),
            !.paintOrder = "stroke fill",
            !.strokeLinejoin = "round"]

\* body of the for loop of addOutlineToMathJaxSvg for one path element
OutlinePath(p, opts) ==
  IF p.fill = "none" THEN p
  ELSE [p EXCEPT !.stroke = opts.stroke,
                 !.strokeWidth = ToString(opts.strokeWidth),
                 !.paintOrder = "stroke fill",
                 !.strokeLinejoin = "round"]

addOutlineToMathJaxSvg(svgText, opts) ==
  [svgText EXCEPT !.elems =
     [i \in DOMAIN svgText.elems |->
        IF svgText.elems[i].tag = "path"
        THEN OutlinePath(svgText.elems[i], opts)
        ELSE svgText.elems[i]]]

NewViewBoxSingleMargin(x, y, width, height, margin) ==
  << NumberToString(RSub(x, margin)),
     NumberToString(RSub(y, margin)),
     NumberToString(RAdd(width, margin)),
     NumberToString(RAdd(height, margin)) >>

\* the four components written back to viewBox
NewViewBox(x, y, width, height, margin) ==
  << NumberToString(RSub(x, margin)),
     NumberToString(RSub(y, margin)),
     NumberToString(RAdd(width, RMul(Num(2), margin))),
     NumberToString(RAdd(height, RMul(Num(2), margin))) >>

NewWidthValueSingleMargin(widthValue, width, margin) ==
  RAdd(widthValue, RMul(margin, RDiv(widthValue, width)))

\* const newWidthValue = widthValue + 2 * margin * (widthValue / width)
NewWidthValue(widthValue, width, margin) ==
  RAdd(widthValue, RMul(RMul(Num(2), margin), RDiv(widthValue, width)))

\* const aspectRatio = width / height; newHeightValue = newWidthValue / aspectRatio
NewHeightValue(newWidthValue, width, height) ==
  RDiv(newWidthValue, RDiv(width, height))

addMarginToSvg(svgText, margin) ==
  IF RLeZero(margin) THEN svgText
  ELSE IF ~svgText.hasSvg THEN svgText
  ELSE IF ViewBoxFalsy(svgText.viewBox) THEN svgText
  ELSE LET parts == [i \in DOMAIN svgText.viewBox.toks |->
                       Number(svgText.viewBox.toks[i])]
       IN IF Len(parts) # 4 THEN svgText
          ELSE
            \* the `=== undefined` test never holds for a length-4 array
            LET x == parts[1]
                y == parts[2]
                width == parts[3]
                height == parts[4]
                withBox == [svgText EXCEPT !.viewBox =
                              ViewBoxAttr(NewViewBox(x, y, width, height, margin))]
                widthAttr == svgText.width
                heightAttr == svgText.height
                widthValue == parseFloat(widthAttr)
            IN IF SizeTruthy(widthAttr) /\ ~IncludesPercent(widthAttr)
                  /\ ~IsNaN(widthValue) /\ RGtZero(width) /\ RGtZero(height)
               THEN LET newWidthValue == NewWidthValue(widthValue, width, margin)
                        newHeightValue == NewHeightValue(newWidthValue, width, height)
                        withWidth == [withBox EXCEPT !.width =
                                        SizeAttr(newWidthValue, "ex")]
                    IN IF SizeTruthy(heightAttr) /\ ~IncludesPercent(heightAttr)
                       THEN [withWidth EXCEPT !.height = SizeAttr(newHeightValue, "ex")]
                       ELSE withWidth
               ELSE withBox

-----------------------------------------------------------------------------
(* Strings: sequences of UTF-16 code units *)

DOT == 46

\* "a.tex", "a.TEX", "A.TEX", "b.tex", "c.txt"
Name_a_tex == <<97, 46, 116, 101, 120>>
Name_a_TEX == <<97, 46, 84, 69, 88>>
Name_A_TEX == <<65, 46, 84, 69, 88>>
Name_b_tex == <<98, 46, 116, 101, 120>>
Name_c_txt == <<99, 46, 116, 120, 116>>

Ext_tex == <<46, 116, 101, 120>>
Ext_svg == <<46, 115, 118, 103>>
Ext_png == <<46, 112, 110, 103>>

\* " \n", " x"
Text_blank == <<32, 10>>
Text_x == <<32, 120>>

IsWhitespace(c) ==
  c \in {9, 10, 11, 12, 13, 32}

RECURSIVE TrimStart(_)
TrimStart(s) ==
  IF s # <<>> /\ IsWhitespace(Head(s)) THEN TrimStart(Tail(s)) ELSE s

RECURSIVE TrimEnd(_)
TrimEnd(s) ==
  IF s # <<>> /\ IsWhitespace(s[Len(s)])
  THEN TrimEnd(SubSeq(s, 1, Len(s) - 1)) ELSE s

\* String.prototype.trim
trim(s) ==
  TrimEnd(TrimStart(s))

\* String.prototype.toLowerCase on the code units A..Z
toLowerCase(s) ==
  [i \in DOMAIN s |-> IF s[i] >= 65 /\ s[i] <= 90 THEN s[i] + 32 ELSE s[i]]

\* String.prototype.endsWith
endsWith(s, suffix) ==
  /\ Len(s) >= Len(suffix)
  /\ SubSeq(s, Len(s) - Len(suffix) + 1, Len(s)) = suffix

\* the comparison Array.prototype.sort() uses by default: code-unit order
RECURSIVE StrLess(_, _)
StrLess(a, b) ==
  IF b = <<>> THEN FALSE
  ELSE IF a = <<>> THEN TRUE
  ELSE IF Head(a) # Head(b) THEN Head(a) < Head(b)
  ELSE StrLess(Tail(a), Tail(b))

RECURSIVE InsertSorted(_, _)
InsertSorted(x, s) ==
  IF s = <<>> THEN <<x>>
  ELSE IF StrLess(x, Head(s)) THEN <<x>> \o s
  ELSE <<Head(s)>> \o InsertSorted(x, Tail(s))

RECURSIVE sort(_)
sort(s) ==
  IF s = <<>> THEN <<>> ELSE InsertSorted(Head(s), sort(Tail(s)))

\* filename.replace(/\.[^.]+$/, ""): drop the last "." and the non-empty,
\* dot-free run after it
slugify(filename) ==
  LET starts == {p \in DOMAIN filename :
                   /\ filename[p] = DOT
                   /\ p < Len(filename)
                   /\ \A q \in (p + 1)..Len(filename) : filename[q] # DOT}
  IN IF starts = {} THEN filename
     ELSE SubSeq(filename, 1, (CHOOSE p \in starts : \A r \in starts : p <= r) - 1)

-----------------------------------------------------------------------------
(* Directory listing *)

DirEntry(name, kind, content) ==
  [name |-> name, kind |-> kind, content |-> content]

RECURSIVE SelectNames(_)
SelectNames(items) ==
  IF items = <<>> THEN <<>>
  ELSE LET e == Head(items)
       IN IF e.kind = "file" /\ endsWith(toLowerCase(e.name), Ext_tex)
          THEN <<e.name>> \o SelectNames(Tail(items))
          ELSE SelectNames(Tail(items))

listTexFilesUnsorted(items) ==
  SelectNames(items)

\* items.filter(isFile && name.toLowerCase().endsWith(".tex")).map(name).sort()
listTexFiles(items) ==
  sort(SelectNames(items))

\* fs.readFile(path.join(equationsDir, file), "utf8")
readFile(items, file) ==
  items[CHOOSE i \in DOMAIN items : items[i].name = file].content
-----------------------------------------------------------------------------
(* Collaborators and helpers of main *)

\* Math.round
MathRound(r) ==
  (2 * r.n + r.d) \div (2 * r.d)

\* html.convert(latex, {display}) followed by the <svg>...</svg> extraction:
\* MathJax is deterministic; its output is a root with viewBox and ex sizes,
\* a group and one glyph path per equation, here carrying the equation text.
Typeset(tex, display) ==
  Doc(TRUE,
      ViewBoxAttr(<<NumTok(Num(0)), NumTok(Num(-750)),
                    NumTok(Num(IF display THEN 1000 ELSE 800)), NumTok(Num(500))>>),
      SizeAttr(Num(10), "ex"), SizeAttr(Num(5), "ex"),
      <<Elem("g", "currentColor", "currentColor", "0", NULL, NULL, <<>>),
        Elem("path", NULL, NULL, NULL, NULL, NULL, tex),
        Elem("path", "none", NULL, NULL, NULL, NULL, <<>>)>>)

\* renderOne after a successful conversion; wrapSvg only normalises the
\* surrounding whitespace of the serialised text, which documents do not carry
renderOne(tex, display) ==
  addOutlineToMathJaxSvg(Typeset(tex, display),
    [stroke |-> BRIGHT_OUTLINE_STROKE_COLOR, strokeWidth |-> BRIGHT_OUTLINE_STROKE_WIDTH])

\* const margin = cfg.margin ?? 0
CfgMargin(c) ==
  IF c.hasMargin THEN c.margin ELSE Num(0)

\* const scale = cfg.pngScale ?? 1
CfgScale(c) ==
  IF c.hasPngScale THEN c.pngScale ELSE Num(1)

\* fs.writeFile / sharp(...).toFile: create or replace the file at path
WriteFile(d, path, content) ==
  [p \in (DOMAIN d) \cup {path} |-> IF p = path THEN content ELSE d[p]]

SvgFile(doc) ==
  [kind |-> "svg", doc |-> doc, density |-> 0]

PngFile(doc, density) ==
  [kind |-> "png", doc |-> doc, density |-> density]

LogLine(level, what, arg) ==
  [level |-> level, what |-> what, arg |-> arg]

EmptyDisk ==
  [p \in {} |-> SvgFile(Typeset(<<>>, TRUE))]

-----------------------------------------------------------------------------
(* Inputs *)

Names ==
  {Name_a_tex, Name_a_TEX, Name_A_TEX, Name_b_tex, Name_c_txt}

Entries ==
  {DirEntry(n, "dir", <<>>) : n \in Names}
    \cup {DirEntry(n, "file", c) : n \in Names, c \in {Text_blank, Text_x}}

\* a directory holds each name at most once; readdir returns any order
Directories ==
  UNION {{s \in [1..n -> Entries] :
            \A i, j \in 1..n : i # j => s[i].name # s[j].name} : n \in 0..MaxEntries}

\* the configuration of the call at the bottom of render.ts, and one that
\* leaves the optional fields out
Configs ==
  {[display |-> TRUE, hasPngScale |-> TRUE, pngScale |-> Num(10),
    hasMargin |-> TRUE, margin |-> Num(20)],
   [display |-> FALSE, hasPngScale |-> FALSE, pngScale |-> NaN,
    hasMargin |-> FALSE, margin |-> NaN]}

Tokens ==
  {NumTok(Num(0)), NumTok(Num(100)), NumTok(Num(50)), WordTok("abc")}

\* split(/\s+/) yields empty strings only as first or last token
TokenSeqs ==
  UNION {{s \in [1..n -> Tokens \cup {EmptyTok}] :
            \A i \in 2..(n - 1) : s[i] # EmptyTok} : n \in 1..MaxViewBoxLen}

Sizes ==
  {NoSize, SizeAttr(Num(10), "ex"), SizeAttr(Norm(5, 2), "px"),
   SizeAttr(Num(100), "%"), SizeAttr(NaN, "auto"), SizeAttr(NaN, "")}

Heights ==
  {NoSize, SizeAttr(Num(5), "ex"), SizeAttr(Num(100), "%")}

Margins ==
  {Num(-5), Num(0), Num(20)}

GlyphPath ==
  Elem("path", NULL, NULL, NULL, NULL, NULL, <<120>>)

MarginDocs ==
  {Doc(FALSE, NoAttr, NoSize, NoSize, <<GlyphPath>>)}
    \cup {Doc(TRUE, vb, w, h, <<GlyphPath>>) :
            vb \in {NoAttr} \cup {ViewBoxAttr(t) : t \in TokenSeqs},
            w \in Sizes, h \in Heights}

OutlineElems ==
  {Elem(tag, fill, stroke, NULL, NULL, NULL, <<>>) :
     tag \in {"path", "g"}, fill \in {NULL, "none", "None", "black"},
     stroke \in {NULL, "red"}}

OutlineDocs ==
  {Doc(TRUE, NoAttr, NoSize, NoSize, es) :
     es \in UNION {[1..n -> OutlineElems] : n \in 0..MaxElems}}

OutlineStyles ==
  {[stroke |-> BRIGHT_OUTLINE_STROKE_COLOR, strokeWidth |-> BRIGHT_OUTLINE_STROKE_WIDTH],
   [stroke |-> "#fff", strokeWidth |-> 1]}

-----------------------------------------------------------------------------
(* main *)

MainIdle ==
  /\ cfg = CHOOSE c \in Configs : c.hasMargin
  /\ dir = <<>>
  /\ pc = "idle"
  /\ outDirExists = FALSE
  /\ files = <<>>
  /\ idx = 0
  /\ latex = <<>>
  /\ svg = Typeset(<<>>, TRUE)
  /\ mathjax = FALSE
  /\ disk = EmptyDisk
  /\ exitCode = 0
  /\ log = <<>>
  /\ readLog = <<>>
  /\ writeLog = <<>>
  /\ convertLog = <<>>
  /\ failedAt = 0
  /\ raisedBy = "none"

MarginIdle ==
  /\ mSvg = Typeset(<<>>, TRUE)
  /\ mMargin = Num(0)
  /\ mOut = Typeset(<<>>, TRUE)
  /\ mDone = FALSE

OutlineIdle ==
  /\ oSvg = Typeset(<<>>, TRUE)
  /\ oOpts = CHOOSE o \in OutlineStyles : o.strokeWidth = 1
  /\ oOut = Typeset(<<>>, TRUE)
  /\ oDone = FALSE

Init ==
  /\ cfg \in Configs
  /\ dir \in Directories
  /\ pc = "start"
  /\ outDirExists = FALSE
  /\ files = <<>>
  /\ idx = 0
  /\ latex = <<>>
  /\ svg = Typeset(<<>>, TRUE)
  /\ mathjax = FALSE
  /\ disk = EmptyDisk
  /\ exitCode = 0
  /\ log = <<>>
  /\ readLog = <<>>
  /\ writeLog = <<>>
  /\ convertLog = <<>>
  /\ failedAt = 0
  /\ raisedBy = "none"
  /\ MarginIdle
  /\ OutlineIdle

\* await ensureDir(outDir)
EnsureDir ==
  /\ pc = "start"
  /\ outDirExists' = TRUE
  /\ pc' = "list"
  /\ UNCHANGED <<cfg, dir, files, idx, latex, svg, mathjax, disk, exitCode, log,
                 readLog, writeLog, convertLog, failedAt, raisedBy>>
  /\ UNCHANGED <<marginVars, outlineVars>>

ListFilesNoExitCode ==
  /\ pc = "list"
  /\ files' = listTexFiles(dir)
  /\ IF Len(files') = 0
     THEN /\ log' = Append(log, LogLine("error", "no-tex", <<>>))
          /\ exitCode' = exitCode
          /\ pc' = "create"
     ELSE /\ pc' = "create"
          /\ UNCHANGED <<log, exitCode>>
  /\ UNCHANGED <<cfg, dir, outDirExists, idx, latex, svg, mathjax, disk,
                 readLog, writeLog, convertLog, failedAt, raisedBy>>
  /\ UNCHANGED <<marginVars, outlineVars>>

\* const files = await listTexFiles(equationsDir); if (files.length === 0) ...
ListFiles ==
  /\ pc = "list"
  /\ files' = listTexFiles(dir)
  /\ IF Len(files') = 0
     THEN /\ log' = Append(log, LogLine("error", "no-tex", <<>>))
          /\ exitCode' = 1
          /\ pc' = "done"
     ELSE /\ pc' = "create"
          /\ UNCHANGED <<log, exitCode>>
  /\ UNCHANGED <<cfg, dir, outDirExists, idx, latex, svg, mathjax, disk,
                 readLog, writeLog, convertLog, failedAt, raisedBy>>
  /\ UNCHANGED <<marginVars, outlineVars>>

\* const { adaptor, html } = createMathJax(); the loop starts at the first file
CreateMathJax ==
  /\ pc = "create"
  /\ mathjax' = TRUE
  /\ idx' = 1
  /\ pc' = "loop"
  /\ UNCHANGED <<cfg, dir, outDirExists, files, latex, svg, disk, exitCode, log,
                 readLog, writeLog, convertLog, failedAt, raisedBy>>
  /\ UNCHANGED <<marginVars, outlineVars>>

\* const latex = (await fs.readFile(inPath, "utf8")).trim(); if (!latex) ...
ReadFile ==
  /\ pc = "loop"
  /\ idx <= Len(files)
  /\ readLog' = Append(readLog, files[idx])
  /\ latex' = trim(readFile(dir, files[idx]))
  /\ IF latex' = <<>>
     THEN /\ log' = Append(log, LogLine("warn", "skip", files[idx]))
          /\ idx' = idx + 1
          /\ pc' = "loop"
     ELSE /\ pc' = "render"
          /\ UNCHANGED <<log, idx>>
  /\ UNCHANGED <<cfg, dir, outDirExists, files, svg, mathjax, disk, exitCode,
                 writeLog, convertLog, failedAt, raisedBy>>
  /\ UNCHANGED <<marginVars, outlineVars>>

\* the for..of loop is exhausted and main returns
LoopEnd ==
  /\ pc = "loop"
  /\ idx > Len(files)
  /\ pc' = "done"
  /\ UNCHANGED <<cfg, dir, outDirExists, files, idx, latex, svg, mathjax, disk,
                 exitCode, log, readLog, writeLog, convertLog, failedAt, raisedBy>>
  /\ UNCHANGED <<marginVars, outlineVars>>

\* renderOne succeeds; margin is applied; <base>.svg is written and logged
RenderAndWriteSvg ==
  /\ pc = "render"
  /\ convertLog' = Append(convertLog, files[idx])
  /\ LET rendered == renderOne(latex, cfg.display)
         margin == CfgMargin(cfg)
         svgPath == slugify(files[idx]) \o Ext_svg
     IN /\ svg' = IF RGtZero(margin) THEN addMarginToSvg(rendered, margin)
                  ELSE rendered
        /\ disk' = WriteFile(disk, svgPath, SvgFile(svg'))
        /\ writeLog' = Append(writeLog, [path |-> svgPath, src |-> files[idx]])
        /\ log' = Append(log, LogLine("log", "wrote", svgPath))
  /\ pc' = "raster"
  /\ UNCHANGED <<cfg, dir, outDirExists, files, idx, latex, mathjax, exitCode,
                 readLog, failedAt, raisedBy>>
  /\ UNCHANGED <<marginVars, outlineVars>>

RenderFailContinue ==
  /\ pc = "render"
  /\ convertLog' = Append(convertLog, files[idx])
  /\ failedAt' = idx
  /\ raisedBy' = "typeset"
  /\ idx' = idx + 1
  /\ pc' = "loop"
  /\ UNCHANGED <<cfg, dir, outDirExists, files, latex, svg, mathjax, disk, exitCode,
                 log, readLog, writeLog>>
  /\ UNCHANGED <<marginVars, outlineVars>>

\* html.convert raises (or no <svg> is found): the rejection leaves main and
\* the top-level await, and the process ends with a failure status
RenderFail ==
  /\ pc = "render"
  /\ convertLog' = Append(convertLog, files[idx])
  /\ failedAt' = idx
  /\ raisedBy' = "typeset"
  /\ exitCode' = 1
  /\ pc' = "failed"
  /\ UNCHANGED <<cfg, dir, outDirExists, files, idx, latex, svg, mathjax, disk,
                 log, readLog, writeLog>>
  /\ UNCHANGED <<marginVars, outlineVars>>

\* sharp(Buffer.from(svg), {density}).png().toFile(pngPath) succeeds
RasterAndWritePng ==
  /\ pc = "raster"
  /\ LET pngPath == slugify(files[idx]) \o Ext_png
         density == MathRound(RMul(Num(72), CfgScale(cfg)))
     IN /\ disk' = WriteFile(disk, pngPath, PngFile(svg, density))
        /\ writeLog' = Append(writeLog, [path |-> pngPath, src |-> files[idx]])
        /\ log' = Append(log, LogLine("log", "wrote", pngPath))
  /\ idx' = idx + 1
  /\ pc' = "loop"
  /\ UNCHANGED <<cfg, dir, outDirExists, files, latex, svg, mathjax, exitCode,
                 readLog, convertLog, failedAt, raisedBy>>
  /\ UNCHANGED <<marginVars, outlineVars>>

\* the rasteriser raises: as for RenderFail
RasterFail ==
  /\ pc = "raster"
  /\ failedAt' = idx
  /\ raisedBy' = "raster"
  /\ exitCode' = 1
  /\ pc' = "failed"
  /\ UNCHANGED <<cfg, dir, outDirExists, files, idx, latex, svg, mathjax, disk,
                 log, readLog, writeLog, convertLog>>
  /\ UNCHANGED <<marginVars, outlineVars>>

Next ==
  \/ EnsureDir
  \/ ListFiles
  \/ CreateMathJax
  \/ ReadFile
  \/ LoopEnd
  \/ RenderAndWriteSvg
  \/ RenderFail
  \/ RasterAndWritePng
  \/ RasterFail

Spec == Init /\ [][Next]_vars

-----------------------------------------------------------------------------
(* addMarginToSvg on arbitrary documents *)

InitMargin ==
  /\ MainIdle
  /\ OutlineIdle
  /\ mSvg \in MarginDocs
  /\ mMargin \in Margins
  /\ mOut = mSvg
  /\ mDone = FALSE

ApplyMargin ==
  /\ ~mDone
  /\ mOut' = addMarginToSvg(mSvg, mMargin)
  /\ mDone' = TRUE
  /\ UNCHANGED <<mSvg, mMargin>>
  /\ UNCHANGED <<mainVars, outlineVars>>

NextMargin ==
  ApplyMargin

SpecMargin == InitMargin /\ [][NextMargin]_vars

-----------------------------------------------------------------------------
(* addOutlineToMathJaxSvg on arbitrary documents *)

InitOutline ==
  /\ MainIdle
  /\ MarginIdle
  /\ oSvg \in OutlineDocs
  /\ oOpts \in OutlineStyles
  /\ oOut = oSvg
  /\ oDone = FALSE

ApplyOutline ==
  /\ ~oDone
  /\ oOut' = addOutlineToMathJaxSvg(oSvg, oOpts)
  /\ oDone' = TRUE
  /\ UNCHANGED <<oSvg, oOpts>>
  /\ UNCHANGED <<mainVars, marginVars>>

NextOutline ==
  ApplyOutline

SpecOutline == InitOutline /\ [][NextOutline]_vars

-----------------------------------------------------------------------------
(* Vocabulary of the properties *)

FourTokens(vb) ==
  vb.present /\ Len(vb.toks) = 4

FourNumbers(vb) ==
  FourTokens(vb) /\ \A i \in 1..4 : vb.toks[i].kind = "num"

BoxOf(a, b, c, d) ==
  ViewBoxAttr(<<NumTok(Num(a)), NumTok(Num(b)), NumTok(Num(c)), NumTok(Num(d))>>)

\* the margin call acted on a document with a four-number box, margin > 0
MarginApplied ==
  mDone /\ mSvg.hasSvg /\ RGtZero(mMargin) /\ FourNumbers(mSvg.viewBox)

\* ... whose box is positive and whose declared width is numeric and not a percentage
WidthRewritten ==
  /\ mDone /\ mSvg.hasSvg /\ RGtZero(mMargin) /\ FourTokens(mSvg.viewBox)
  /\ RGtZero(Number(mSvg.viewBox.toks[3]))
  /\ RGtZero(Number(mSvg.viewBox.toks[4]))
  /\ mSvg.width.present /\ ~IsNaN(mSvg.width.val) /\ mSvg.width.suffix # "%"

HeightDeclared ==
  /\ mSvg.height.present /\ mSvg.height.suffix # "%"
  /\ ~(IsNaN(mSvg.height.val) /\ mSvg.height.suffix = "")

\* a + k*b on rationals, written out on numerators and denominators
Plus(a, k, b) ==
  Norm(a.n * b.d + k * b.n * a.d, a.d * b.d)

\* a*b/c on rationals
MulDiv(a, b, c) ==
  Norm(a.n * b.n * c.d, a.d * b.d * c.n)

\* C1: With a four-number viewBox (x, y, w, h) and margin m > 0 the result's
\* viewBox is exactly (x - m, y - m, w + 2m, h + 2m); (0, 0, 100, 50) with
\* margin 20 gives (-20, -20, 140, 90).
C1_ViewBoxExpanded ==
  /\ MarginApplied =>
       LET t == mSvg.viewBox.toks
       IN mOut.viewBox = ViewBoxAttr(<<NumTok(Plus(t[1].val, -1, mMargin)),
                                       NumTok(Plus(t[2].val, -1, mMargin)),
                                       NumTok(Plus(t[3].val, 2, mMargin)),
                                       NumTok(Plus(t[4].val, 2, mMargin))>>)
  /\ (mDone /\ mSvg.hasSvg /\ mSvg.viewBox = BoxOf(0, 0, 100, 50) /\ mMargin = Num(20))
       => mOut.viewBox = BoxOf(-20, -20, 140, 90)

C1_Witness ==
  /\ mDone /\ mSvg.hasSvg /\ mMargin = Num(20)
  /\ mSvg.viewBox = BoxOf(0, 0, 100, 50)
  /\ mOut.viewBox = BoxOf(-20, -20, 140, 90)

\* C2: The result equals the input whenever margin <= 0, or there is no
\* viewBox, or the viewBox is not exactly four numeric components.
C2_NoOpOnMalformed ==
  (mDone /\ (RLeZero(mMargin) \/ ~mSvg.hasSvg \/ ~mSvg.viewBox.present
               \/ ~FourNumbers(mSvg.viewBox)))
    => mOut = mSvg

\* C3: With margin m > 0, viewBox width w > 0 and height h > 0 and a
\* numeric non-percentage declared width W, the new declared width is
\* W * (w + 2m) / w and, when a non-percentage height is declared, the new
\* declared height is (new width) * h / w; width 100, "10ex", margin 20 gives "14ex".
C3_DeclaredSizeScaled ==
  /\ WidthRewritten =>
       LET w == Number(mSvg.viewBox.toks[3])
           h == Number(mSvg.viewBox.toks[4])
           newW == MulDiv(mSvg.width.val, Plus(w, 2, mMargin), w)
       IN /\ mOut.width = SizeAttr(newW, "ex")
          /\ mOut.width.val = Plus(mSvg.width.val, 2, MulDiv(mMargin, mSvg.width.val, w))
          /\ HeightDeclared => mOut.height = SizeAttr(MulDiv(newW, h, w), "ex")
          /\ ~HeightDeclared => mOut.height = mSvg.height
  /\ (WidthRewritten /\ Number(mSvg.viewBox.toks[3]) = Num(100)
        /\ mSvg.width = SizeAttr(Num(10), "ex") /\ mMargin = Num(20))
       => mOut.width = SizeAttr(Num(14), "ex")

C3_Witness ==
  /\ WidthRewritten /\ HeightDeclared /\ mMargin = Num(20)
  /\ mSvg.viewBox = BoxOf(0, 0, 100, 50)
  /\ mSvg.width = SizeAttr(Num(10), "ex")
  /\ mSvg.height = SizeAttr(Num(5), "ex")
  /\ mOut.width = SizeAttr(Num(14), "ex")
  /\ mOut.height = SizeAttr(Num(7), "ex")

\* C4: After both declared sizes are rewritten, new declared height / new
\* declared width equals (h + 2m) / (w + 2m), the aspect ratio of the new box.
C4_NewBoxAspectRatio ==
  (WidthRewritten /\ FourNumbers(mSvg.viewBox) /\ HeightDeclared) =>
    LET w == Number(mSvg.viewBox.toks[3])
        h == Number(mSvg.viewBox.toks[4])
    IN RMul(mOut.height.val, Plus(w, 2, mMargin))
         = RMul(mOut.width.val, Plus(h, 2, mMargin))

StrokeWidthText(opts) ==
  IF opts.strokeWidth = 45 THEN "45" ELSE IF opts.strokeWidth = 1 THEN "1" ELSE "?"

\* C5: The outline pass keeps the element list and every non-path element;
\* a path with fill "none" keeps all attributes; every other path (no fill
\* included) ends with the style's stroke and stroke-width, paint-order
\* "stroke fill" and stroke-linejoin "round", its other attributes unchanged.
C5_OutlineOnlyFilledPaths ==
  oDone =>
    /\ Len(oOut.elems) = Len(oSvg.elems)
    /\ oOut.hasSvg = oSvg.hasSvg /\ oOut.viewBox = oSvg.viewBox
    /\ oOut.width = oSvg.width /\ oOut.height = oSvg.height
    /\ \A i \in DOMAIN oSvg.elems :
         LET before == oSvg.elems[i]
             after == oOut.elems[i]
         IN /\ after.tag = before.tag
            /\ after.fill = before.fill
            /\ after.d = before.d
            /\ (before.tag # "path" \/ before.fill = "none") => after = before
            /\ (before.tag = "path" /\ before.fill # "none") =>
                 /\ after.stroke = oOpts.stroke
                 /\ after.strokeWidth = StrokeWidthText(oOpts)
                 /\ after.paintOrder = "stroke fill"
                 /\ after.strokeLinejoin = "round"

C5_Witness ==
  /\ oDone
  /\ \E i, j, k \in DOMAIN oSvg.elems :
       /\ oSvg.elems[i].tag = "path" /\ oSvg.elems[i].fill = "none"
       /\ oSvg.elems[i].stroke = "red" /\ oOut.elems[i].stroke = "red"
       /\ oSvg.elems[j].tag = "path" /\ oSvg.elems[j].fill = NULL
       /\ oOut.elems[j].stroke = oOpts.stroke /\ oOut.elems[j].paintOrder = "stroke fill"
       /\ oSvg.elems[k].tag = "g" /\ oSvg.elems[k].fill = "black"
       /\ oOut.elems[k] = oSvg.elems[k]

-----------------------------------------------------------------------------
(* Vocabulary of the batch properties *)

\* the name ends in ".tex", compared without regard to case
TexName(name) ==
  /\ Len(name) >= 4
  /\ name[Len(name) - 3] = 46
  /\ name[Len(name) - 2] \in {116, 84}
  /\ name[Len(name) - 1] \in {101, 69}
  /\ name[Len(name)] \in {120, 88}

Eligible ==
  {dir[i].name : i \in {j \in DOMAIN dir : dir[j].kind = "file" /\ TexName(dir[j].name)}}

\* a precedes b in lexicographic order of code units
LexBefore(a, b) ==
  \E k \in 1..(Len(b)) :
    /\ k <= Len(a) + 1
    /\ \A q \in 1..(k - 1) : a[q] = b[q]
    /\ (k = Len(a) + 1 \/ a[k] < b[k])

ContentOf(name) ==
  dir[CHOOSE i \in DOMAIN dir : dir[i].name = name].content

\* the content has a character that is not whitespace
NonBlank(text) ==
  \E i \in DOMAIN text : text[i] \notin {9, 10, 11, 12, 13, 32}

\* the name up to its last dot
BaseOf(name) ==
  SubSeq(name, 1, Len(name) - 4)

WritesTo(path) ==
  {i \in DOMAIN writeLog : writeLog[i].path = path}

Listed ==
  pc \notin {"idle", "start", "list"}

\* C6: In a run without collaborator failure, every enumerated source with
\* non-blank content has exactly one <base>.svg and one <base>.png written;
\* every blank one has a skip warning and no output with its base name; all
\* files of the list are processed.
C6_OnePairPerSource ==
  (pc = "done" /\ failedAt = 0 /\ Eligible # {}) =>
    /\ readLog = files
    /\ \A f \in Eligible :
         IF NonBlank(ContentOf(f))
         THEN /\ Cardinality(WritesTo(BaseOf(f) \o Ext_svg)) = 1
              /\ Cardinality(WritesTo(BaseOf(f) \o Ext_png)) = 1
              /\ BaseOf(f) \o Ext_svg \in DOMAIN disk
              /\ BaseOf(f) \o Ext_png \in DOMAIN disk
         ELSE /\ \E i \in DOMAIN log : log[i] = LogLine("warn", "skip", f)
              /\ WritesTo(BaseOf(f) \o Ext_svg) = {}
              /\ WritesTo(BaseOf(f) \o Ext_png) = {}
              /\ BaseOf(f) \o Ext_svg \notin DOMAIN disk
              /\ BaseOf(f) \o Ext_png \notin DOMAIN disk

\* C7: With no eligible file, main ends with exit status 1 and an error
\* message; nothing is written, nothing is read, MathJax is never created and
\* the only effect on disk is that the output directory exists.
C7_NoFilesIsFatal ==
  Eligible = {} =>
    /\ pc \in {"start", "list", "done"}
    /\ disk = EmptyDisk
    /\ writeLog = <<>>
    /\ readLog = <<>>
    /\ convertLog = <<>>
    /\ ~mathjax
    /\ pc = "done" =>
         /\ exitCode = 1
         /\ log = <<LogLine("error", "no-tex", <<>>)>>
         /\ outDirExists

C7_Witness ==
  /\ pc = "done" /\ Eligible = {} /\ Len(dir) = 3
  /\ \E i \in DOMAIN dir : dir[i].kind = "dir" /\ TexName(dir[i].name)
  /\ exitCode = 1 /\ outDirExists /\ disk = EmptyDisk

\* state of a run in which a collaborator raised at position failedAt
AbortedState ==
  failedAt # 0 =>
    /\ pc = "failed"
    /\ idx = failedAt
    /\ readLog = SubSeq(files, 1, failedAt)
    /\ \A i \in DOMAIN writeLog :
         \E j \in 1..failedAt : writeLog[i].src = files[j]
    /\ Cardinality({i \in DOMAIN convertLog : convertLog[i] = files[failedAt]}) = 1
    /\ \A p \in DOMAIN disk : WritesTo(p) # {}
    /\ \A i \in DOMAIN writeLog : writeLog[i].path \in DOMAIN disk
    /\ raisedBy = "typeset" =>
         \A i \in DOMAIN writeLog : writeLog[i].src # files[failedAt]
    /\ raisedBy = "raster" =>
         /\ writeLog[Len(writeLog)] =
              [path |-> BaseOf(files[failedAt]) \o Ext_svg, src |-> files[failedAt]]
         /\ disk[BaseOf(files[failedAt]) \o Ext_svg] = SvgFile(svg)

\* C8: Once a collaborator raises at file k the run is over: files 1..k were
\* read once each and none after k, the raising call was made once, every
\* write so far is on disk (file k's vector output too when the rasteriser
\* raised), and from then on nothing is read, converted or written.
C8_FailFast ==
  /\ []AbortedState
  /\ [][failedAt # 0 =>
          /\ disk' = disk
          /\ readLog' = readLog
          /\ writeLog' = writeLog
          /\ convertLog' = convertLog]_vars

C8_Witness ==
  /\ pc = "failed" /\ raisedBy = "raster" /\ failedAt = 2 /\ Len(files) = 3
  /\ Cardinality(DOMAIN disk) = 3
  /\ Len(readLog) = 2

\* C9: Every output path is written at most once in a run, so the number of
\* output files is twice the number of processed non-blank sources.
C9_NoOverwrite ==
  /\ \A i, j \in DOMAIN writeLog : i # j => writeLog[i].path # writeLog[j].path
  /\ (pc = "done" /\ failedAt = 0) =>
       Cardinality(DOMAIN disk)
         = 2 * Cardinality({f \in Eligible : NonBlank(ContentOf(f))})

\* C10: listTexFiles returns exactly the names of the regular files ending in
\* ".tex" in any letter case, each once and as spelled, in ascending
\* lexicographic order; the empty list when there are none;
\* ["b.tex", "A.TEX", "c.txt"] gives ["A.TEX", "b.tex"].
C10_ListTexFiles ==
  Listed =>
    /\ {files[i] : i \in DOMAIN files} = Eligible
    /\ \A i, j \in DOMAIN files : i < j => LexBefore(files[i], files[j])
    /\ Eligible = {} => files = <<>>
    /\ ([i \in DOMAIN dir |-> dir[i].name] = <<Name_b_tex, Name_A_TEX, Name_c_txt>>
          /\ \A i \in DOMAIN dir : dir[i].kind = "file")
         => files = <<Name_A_TEX, Name_b_tex>>

C10_Witness ==
  /\ Listed
  /\ [i \in DOMAIN dir |-> dir[i].name] = <<Name_b_tex, Name_A_TEX, Name_c_txt>>
  /\ \A i \in DOMAIN dir : dir[i].kind = "file"
  /\ files = <<Name_A_TEX, Name_b_tex>>

====
